---- MODULE Spec2Model ----
(***************************************************************************)
(* backerrs: the scan pipeline of src/scanning.rs (scan, process_tree,     *)
(* Tree::try_from, marker_read, try_deduce_date) and the catalog access of *)
(* src/widgets/gallery.rs (Gallery::layout, Gallery::draw), which share    *)
(* one Arc<Mutex<Connection>>.                                             *)
(***************************************************************************)
EXTENDS Integers, Sequences, FiniteSets, TLC

\* ---------------------------------------------------------------- bounds
\* Configured marker files.
NTrees == 2
\* Entries the walks of all trees yield together.
MaxFiles == 3
\* Date-path entries of one marker.
MaxDatePaths == 2
\* Bits of the unsigned integers of the gallery widget (u32 in the source).
WordBits == 16
\* Rows of the file table that Gallery::layout counts.
MaxCount == 12

Trees == 1..NTrees
\* Relative paths: the i-th entry a walk yields has relative path i.
Paths == 1..MaxFiles
MarkerIds == {"m1", "m2"}
Gallery == 0
Free == -1
NoKey == <<"none", 0>>
NoInfo == [hash |-> <<"none", "none">>, date |-> <<>>, thumb |-> <<"none", "none">>]
None == <<>>

\* ------------------------------------------------ embedded metadata, dates
Tags == {"DateTime", "DateTimeOriginal"}
RawDates == {"2019:07:04 10:00:00", "2021:12:24 18:30:00", "0000:00:00 00:00:00"}
Absent == "absent"
NoExif == [DateTime |-> "noexif", DateTimeOriginal |-> "noexif"]
Exifs == [Tags -> RawDates \cup {Absent}]

\* exif.datetime(tag): the field's value when the field is present.
datetime(exif, tag) == IF exif[tag] = Absent THEN None ELSE <<exif[tag]>>

\* DateTime::to_naive_opt: a calendar date-time, or nothing when the digits
\* are no calendar date.
to_naive_opt(raw) ==
    CASE raw = "2019:07:04 10:00:00" -> <<[y |-> 2019, mo |-> 7, d |-> 4, h |-> 10, mi |-> 0]>>
      [] raw = "2021:12:24 18:30:00" -> <<[y |-> 2021, mo |-> 12, d |-> 24, h |-> 18, mi |-> 30]>>
      [] OTHER -> None

\* A date-path entry: the regex `path` is the set of relative paths it
\* matches, `date` is what the template expands to on a match.
DatePathSet == [path : SUBSET Paths \ {{}}, date : {"2019:07:04 10:00:00", "not a date"}]

RECURSIVE filter_map_dates(_, _)
filter_map_dates(exif, tags) ==
    IF tags = <<>> THEN <<>>
    ELSE LET dt == datetime(exif, Head(tags))
             nv == IF dt = None THEN None ELSE to_naive_opt(dt[1])
         IN nv \o filter_map_dates(exif, Tail(tags))

TagOrder == <<"DateTime", "DateTimeOriginal">>

\* try_deduce_date: Some(d) is <<d>>, None is <<>>. The loop over date_paths
\* expands the template and prints it; it returns nothing.
try_deduce_date(exif, relative_path, date_paths) ==
    LET found == IF exif = NoExif THEN <<>> ELSE filter_map_dates(exif, TagOrder)
    IN IF found # <<>> THEN <<Head(found)>> ELSE None

\* The bytes of the i-th file of tree t: the files of tree 1 are byte-identical.
ContentAt(t, i) == IF t = 1 THEN "c1" ELSE "c2"

\* What ExifReader::read_from_container finds in a file's bytes.
ExifOf(content) ==
    IF content = "c1" THEN NoExif
    ELSE [DateTime |-> "2021:12:24 18:30:00", DateTimeOriginal |-> "2019:07:04 10:00:00"]

Sha1(content) == <<"sha1", content>>
Thumb(content) == <<"jpeg200", content>>

\* ------------------------------------------------------------ file system
MarkerKinds == {"ok", "absent", "denied", "malformed", "noparent"}
MarkerInputs ==
    {[kind |-> "ok", id |-> m] : m \in MarkerIds}
        \cup {[kind |-> k, id |-> "none"] : k \in MarkerKinds \ {"ok"}}

\* What a walk entry turns out to be. walkerr: the walker yields Err for the
\* entry; unreadable: fs::read fails; readable: read, not decoded so far;
\* corrupt: decode fails; noencode: decodes, but the thumbnail cannot be
\* written as JPEG; ok: a JPEG that decodes and gets its thumbnail.
WalkKinds == {"walkerr", "unreadable", "readable"}
DecodeKinds == {"corrupt", "noencode", "ok"}

VARIABLES
    markerFile,   \* [Trees -> MarkerInputs]: config.markers.disk and what is at each path
    nfiles,       \* [Trees -> 0..MaxFiles]: entries the walk of each tree yields
    track,        \* whether fs records what the entries turned out to be
    fs,           \* [Trees -> Seq(kind)]: the entries seen so far (they do not change)
    datePaths,    \* config.date_path: [MarkerIds -> Seq(DatePathSet)]
    catalog,      \* [Keys -> Info]: the file/location rows
    partial,      \* the key whose upsert is half written, or NoKey
    lock,         \* holder of the Mutex: a tree, Gallery, or Free
    pc,           \* [Trees -> where process_tree is]
    idx,          \* [Trees -> entries taken from the walk]
    result,       \* [Trees -> "none" | "Ok" | "Err"]: what process_tree returned
    cause,        \* [Trees -> what the Err came from]
    scanPc, reported, scanResult,
    run,          \* the number of the scan in progress
    maxRuns,
    catalog0,     \* the catalog when the scan in progress began
    storeErr1,    \* a catalog operation failed during the first scan
    rework,       \* keys decoded by a scan that began with them cataloged
    gpc,          \* where the gallery widget is
    dd,           \* input and output of try_deduce_date called on its own
    gal,          \* the gallery widget: selection, selecting, what on_event did last
    lay           \* input and output of Gallery::layout's row computation

vars == <<markerFile, nfiles, track, fs, datePaths, catalog, partial, lock, pc, idx, result,
          cause, scanPc, reported, scanResult, run, maxRuns, catalog0, storeErr1, rework,
          gpc, dd, gal, lay>>

envVars == <<markerFile, nfiles, track, datePaths, maxRuns>>
scanVars == <<scanPc, reported, scanResult, run, catalog0>>

Keys == MarkerIds \X Paths
EmptyCatalog == [k \in Keys |-> NoInfo]
InfoOf(content, date) == [hash |-> Sha1(content), date |-> date, thumb |-> Thumb(content)]
Known(cat) == {k \in Keys : cat[k] # NoInfo}

\* ---------------------------------------------------------- Marker Resolver
\* marker_read: Ok(Tree) or an anyhow::Error carrying the error it wraps.
marker_read(m) ==
    CASE m.kind = "noparent"  -> [ok |-> FALSE, err |-> [type |-> "anyhow", kind |-> "none"]]
      [] m.kind = "absent"    -> [ok |-> FALSE, err |-> [type |-> "io", kind |-> "NotFound"]]
      [] m.kind = "denied"    -> [ok |-> FALSE, err |-> [type |-> "io", kind |-> "PermissionDenied"]]
      [] m.kind = "malformed" -> [ok |-> FALSE, err |-> [type |-> "serde_json", kind |-> "none"]]
      [] OTHER                -> [ok |-> TRUE, marker |-> m.id]

try_from_NotFoundIsOther(m) ==
    LET r == marker_read(m)
    IN IF r.ok THEN [tag |-> "Ok", marker |-> r.marker] ELSE [tag |-> "Other", marker |-> "none"]

\* impl TryFrom<&Path> for Tree
try_from(m) ==
    LET r == marker_read(m)
    IN  CASE ~r.ok /\ r.err.type = "io" /\ r.err.kind = "NotFound"
                -> [tag |-> "NotFound", marker |-> "none"]
          [] ~r.ok -> [tag |-> "Other", marker |-> "none"]
          [] OTHER -> [tag |-> "Ok", marker |-> r.marker]

MarkerOf(t) == try_from(markerFile[t]).marker
KeyOf(t, i) == <<MarkerOf(t), i>>
CurKey(t) == KeyOf(t, idx[t])

\* ---------------------------------------------------------- gallery widget
\* Gallery::new: the tile size and the spacing, in pixels.
tile_w == 200
tile_h == 200
spacing == 25
\* u32, WordBits wide here: 0..UMax.
UMax == 2^WordBits - 1

\* `x as u32` of a float truncated to an integer: the cast saturates.
AsU32(x) == IF x < 0 THEN 0 ELSE IF x > UMax THEN UMax ELSE x

\* Selection::single
single(i) == [initial |-> i, last |-> i]

\* Selection::range: the offsets of the RangeInclusive.
range(s) == IF s.initial <= s.last THEN s.initial..s.last ELSE s.last..s.initial

\* Gallery::columns
columns(width) == AsU32((width - spacing) \div (tile_w + spacing))

\* Gallery::xy_to_offset: Some(offset) is <<offset>>.
xy_to_offset(width, p) ==
    IF p[1] < 0 \/ p[2] < 0 THEN None
    ELSE LET x_without_left_margin == IF p[1] - spacing > 0 THEN p[1] - spacing ELSE 0
             col == AsU32(x_without_left_margin \div (tile_w + spacing))
             y_without_top_margin == IF p[2] - spacing > 0 THEN p[2] - spacing ELSE 0
             row == AsU32(y_without_top_margin \div (tile_h + spacing))
         IN <<row * columns(width) + col>>

\* The widget as Gallery::new builds it, before any event.
NoGallery ==
    [selection |-> single(0), selecting |-> FALSE, on_select |-> FALSE, published |-> None,
     event |-> "none", hit |-> None, status |-> "none"]

NoLayout ==
    [in |-> [width |-> 0, n_files |-> 0], done |-> TRUE, columns |-> 0, rows |-> 0,
     outcome |-> "none"]

\* ------------------------------------------------------------------- Init
RECURSIVE Sum(_, _)
Sum(f, n) == IF n = 0 THEN 0 ELSE f[n] + Sum(f, n - 1)

NoDeduction ==
    [in |-> [exif |-> NoExif, relative_path |-> 1, date_paths |-> <<>>],
     done |-> TRUE, out |-> None]

\* Marker ids are names: the first marker file that has one has "m1".
FirstIdIsM1(mf) ==
    \A t \in Trees :
        (mf[t].kind = "ok" /\ \A u \in 1..(t - 1) : mf[u].kind # "ok") => mf[t].id = "m1"

\* The catalog before a scan: empty, or with one file known.
InitCatalogs ==
    {EmptyCatalog,
     [EmptyCatalog EXCEPT ![<<"m1", 1>>] = InfoOf("c1", None)]}

InitScan(runs, tr, g, catalogs) ==
    /\ markerFile \in [Trees -> MarkerInputs]
    /\ nfiles \in [Trees -> 0..MaxFiles]
    /\ \A t \in Trees : markerFile[t].kind # "ok" => nfiles[t] = 0
    /\ Sum(nfiles, NTrees) <= MaxFiles
    /\ FirstIdIsM1(markerFile)
    /\ track = tr
    /\ fs = [t \in Trees |-> <<>>]
    /\ datePaths = [m \in MarkerIds |-> <<>>]
    /\ catalog \in catalogs
    /\ partial = NoKey
    /\ lock = Free
    /\ pc = [t \in Trees |-> "Pending"]
    /\ idx = [t \in Trees |-> 0]
    /\ result = [t \in Trees |-> "none"]
    /\ cause = [t \in Trees |-> "none"]
    /\ scanPc = "running"
    /\ reported = {}
    /\ scanResult = "none"
    /\ run = 1
    /\ maxRuns = runs
    /\ catalog0 = catalog
    /\ storeErr1 = FALSE
    /\ rework = {}
    /\ gpc = g
    /\ dd = NoDeduction
    /\ gal = NoGallery
    /\ lay = NoLayout

Init == InitScan(1, FALSE, "off", InitCatalogs)

\* ------------------------------------------------------------ process_tree
Goto(t, to) == pc' = [pc EXCEPT ![t] = to]
Return(t, final, res, why) ==
    /\ pc' = [pc EXCEPT ![t] = final]
    /\ result' = [result EXCEPT ![t] = res]
    /\ cause' = [cause EXCEPT ![t] = why]

\* scan, line 32: the parallel iterator starts process_tree for a marker.
StartTree(t) ==
    /\ scanPc = "running"
    /\ pc[t] = "Pending"
    /\ Goto(t, "Resolving")
    /\ UNCHANGED <<envVars, fs, catalog, partial, lock, idx, result, cause, scanVars,
                   storeErr1, rework, gpc, dd, gal, lay>>

\* process_tree, lines 51-56.
ResolveMarker(t) ==
    /\ pc[t] = "Resolving"
    /\ LET m == try_from(markerFile[t])
       IN  CASE m.tag = "NotFound" -> Return(t, "Skipped", "Ok", "none")
             [] m.tag = "Other"    -> Return(t, "Failed", "Err", "marker")
             [] OTHER              -> Goto(t, "Walking") /\ UNCHANGED <<result, cause>>
    /\ UNCHANGED <<envVars, fs, catalog, partial, lock, idx, scanVars, storeErr1, rework,
                   gpc, dd, gal, lay>>

\* What the next walk entry can turn out to be: what it was before, if seen.
WalkOutcomes(t) ==
    IF Len(fs[t]) > idx[t]
    THEN {IF fs[t][idx[t] + 1] \in WalkKinds THEN fs[t][idx[t] + 1] ELSE "readable"}
    ELSE WalkKinds

Seen(t, k) ==
    IF ~track \/ Len(fs[t]) > idx[t] THEN fs
    ELSE [fs EXCEPT ![t] = Append(@, k)]

OnWalkErrorAbort(t) == Return(t, "Failed", "Err", "walk")

\* process_tree, lines 69-72: the Err entry is printed, `continue`.
OnWalkError(t) == Goto(t, "Walking") /\ UNCHANGED <<result, cause>>

\* process_tree, line 75: fs::read(&path)? returns the Err.
OnReadError(t) == Return(t, "Failed", "Err", "read")

\* process_tree, lines 65-78: the next entry of the walk, or its end; an Err
\* entry is skipped; the file is read and its relative path taken.
WalkNext(t) ==
    /\ pc[t] = "Walking"
    /\ IF idx[t] = nfiles[t]
       THEN /\ Return(t, "Done", "Ok", "none")
            /\ UNCHANGED <<fs, idx>>
       ELSE /\ idx' = [idx EXCEPT ![t] = @ + 1]
            /\ \E k \in WalkOutcomes(t) :
                /\ fs' = Seen(t, k)
                /\ CASE k = "walkerr"    -> OnWalkError(t)
                     [] k = "unreadable" -> OnReadError(t)
                     [] OTHER            -> Goto(t, "LockExists") /\ UNCHANGED <<result, cause>>
    /\ UNCHANGED <<envVars, catalog, partial, lock, scanVars, storeErr1, rework, gpc, dd, gal, lay>>

AcquireNoWait(who) == lock' = who

\* Mutex::lock: blocks until the mutex is free.
Acquire(who) ==
    /\ lock = Free
    /\ lock' = who

\* The MutexGuard is dropped.
Release == lock' = Free

\* process_tree, line 80: let db_readable = db.lock().unwrap()
LockExists(t) ==
    /\ pc[t] = "LockExists"
    /\ Acquire(t)
    /\ Goto(t, "Exists")
    /\ UNCHANGED <<envVars, fs, catalog, partial, idx, result, cause, scanVars, storeErr1,
                   rework, gpc, dd, gal, lay>>

db_exists_AnyPath(cat, key) == \E k \in Keys : k[1] = key[1] /\ cat[k] # NoInfo

\* db::exists
db_exists(cat, key) == cat[key] # NoInfo

ExistsNeverSkips(t) ==
    /\ pc[t] = "Exists"
    /\ Goto(t, "Absent")
    /\ UNCHANGED <<envVars, fs, catalog, partial, lock, idx, result, cause, scanVars,
                   storeErr1, rework, gpc, dd, gal, lay>>

ExistsErrKeepsLock(t) ==
    /\ pc[t] = "Exists"
    /\ \/ /\ Return(t, "Failed", "Err", "store")
          /\ storeErr1' = (storeErr1 \/ run = 1)
          /\ UNCHANGED lock
       \/ /\ db_exists(catalog, CurKey(t))
          /\ Goto(t, "Present")
          /\ UNCHANGED <<lock, result, cause, storeErr1>>
       \/ /\ ~db_exists(catalog, CurKey(t))
          /\ Goto(t, "Absent")
          /\ UNCHANGED <<lock, result, cause, storeErr1>>
    /\ UNCHANGED <<envVars, fs, catalog, partial, idx, scanVars, rework, gpc, dd, gal, lay>>

\* process_tree, line 81: db::exists(..)?; an Err returns and drops the guard.
Exists(t) ==
    /\ pc[t] = "Exists"
    /\ \/ /\ Return(t, "Failed", "Err", "store")
          /\ Release
          /\ storeErr1' = (storeErr1 \/ run = 1)
       \/ /\ db_exists(catalog, CurKey(t))
          /\ Goto(t, "Present")
          /\ UNCHANGED <<lock, result, cause, storeErr1>>
       \/ /\ ~db_exists(catalog, CurKey(t))
          /\ Goto(t, "Absent")
          /\ UNCHANGED <<lock, result, cause, storeErr1>>
    /\ UNCHANGED <<envVars, fs, catalog, partial, idx, scanVars, rework, gpc, dd, gal, lay>>

SkipPresentKeepLock(t) ==
    /\ pc[t] = "Present"
    /\ Goto(t, "Walking")
    /\ UNCHANGED <<envVars, fs, catalog, partial, lock, idx, result, cause, scanVars,
                   storeErr1, rework, gpc, dd, gal, lay>>

SkipPresentThenProcess(t) ==
    /\ pc[t] = "Present"
    /\ Release
    /\ Goto(t, "Hashing")
    /\ UNCHANGED <<envVars, fs, catalog, partial, idx, result, cause, scanVars, storeErr1,
                   rework, gpc, dd, gal, lay>>

\* process_tree, lines 82-84: print, `continue`; the guard goes out of scope.
SkipPresent(t) ==
    /\ pc[t] = "Present"
    /\ Release
    /\ Goto(t, "Walking")
    /\ UNCHANGED <<envVars, fs, catalog, partial, idx, result, cause, scanVars, storeErr1,
                   rework, gpc, dd, gal, lay>>

DropReadableLate(t) ==
    /\ pc[t] = "Absent"
    /\ Goto(t, "Hashing")
    /\ UNCHANGED <<envVars, fs, catalog, partial, lock, idx, result, cause, scanVars,
                   storeErr1, rework, gpc, dd, gal, lay>>

\* process_tree, line 86: drop(db_readable)
DropReadable(t) ==
    /\ pc[t] = "Absent"
    /\ Release
    /\ Goto(t, "Hashing")
    /\ UNCHANGED <<envVars, fs, catalog, partial, idx, result, cause, scanVars, storeErr1,
                   rework, gpc, dd, gal, lay>>

\* What decoding the current file can turn out to give: what it gave before.
DecodeOutcomes(t) ==
    IF track /\ fs[t][idx[t]] \in DecodeKinds THEN {fs[t][idx[t]]} ELSE DecodeKinds

Decoded(t, k) == IF track THEN [fs EXCEPT ![t][idx[t]] = k] ELSE fs

OnDecodeErrorUpsert(t) == Goto(t, "LockUpsert") /\ UNCHANGED <<result, cause>>

\* process_tree, lines 108-113: the decode Err is printed, `continue`.
OnDecodeError(t) == Goto(t, "Walking") /\ UNCHANGED <<result, cause>>

\* process_tree, line 90: the sha1 hash of the bytes, as lowercase hex.
Hash(t) ==
    /\ pc[t] = "Hashing"
    /\ Goto(t, "Processing")
    /\ UNCHANGED <<envVars, fs, catalog, partial, lock, idx, result, cause, scanVars,
                   storeErr1, rework, gpc, dd, gal, lay>>

\* process_tree, lines 95-119: the Exif block, the date, the decode, the
\* thumbnail and thumb.write_to(..)?, whose Err returns.
Process(t) ==
    /\ pc[t] = "Processing"
    /\ rework' = IF CurKey(t) \in Known(catalog0) THEN rework \cup {CurKey(t)} ELSE rework
    /\ \E k \in DecodeOutcomes(t) :
        /\ fs' = Decoded(t, k)
        /\ CASE k = "corrupt"  -> OnDecodeError(t)
             [] k = "noencode" -> Return(t, "Failed", "Err", "thumb")
             [] OTHER          -> Goto(t, "LockUpsert") /\ UNCHANGED <<result, cause>>
    /\ UNCHANGED <<envVars, catalog, partial, lock, idx, scanVars, storeErr1, gpc, dd, gal, lay>>

\* process_tree, line 127: let db_writable = db.lock().unwrap()
LockUpsert(t) ==
    /\ pc[t] = "LockUpsert"
    /\ Acquire(t)
    /\ Goto(t, "Upsert")
    /\ UNCHANGED <<envVars, fs, catalog, partial, idx, result, cause, scanVars, storeErr1,
                   rework, gpc, dd, gal, lay>>

\* process_tree, line 128: db::upsert(..)? begins writing the record, or
\* fails; an Err returns and drops the guard.
Upsert(t) ==
    /\ pc[t] = "Upsert"
    /\ \/ /\ Return(t, "Failed", "Err", "store")
          /\ Release
          /\ storeErr1' = (storeErr1 \/ run = 1)
          /\ UNCHANGED partial
       \/ /\ partial' = CurKey(t)
          /\ Goto(t, "Writing")
          /\ UNCHANGED <<lock, result, cause, storeErr1>>
    /\ UNCHANGED <<envVars, fs, catalog, idx, scanVars, rework, gpc, dd, gal, lay>>

\* The FileInfo of lines 122-126 for the current file.
CurInfo(t) ==
    LET content == ContentAt(t, idx[t])
    IN InfoOf(content, try_deduce_date(ExifOf(content), idx[t], datePaths[MarkerOf(t)]))

UpsertCommitReplacing(t) ==
    /\ pc[t] = "Writing"
    /\ catalog' = [EmptyCatalog EXCEPT ![CurKey(t)] = CurInfo(t)]
    /\ partial' = NoKey
    /\ Goto(t, "Written")
    /\ UNCHANGED <<envVars, fs, lock, idx, result, cause, scanVars, storeErr1, rework,
                   gpc, dd, gal, lay>>

\* db::upsert completes: the file row and its location row are in place.
UpsertCommit(t) ==
    /\ pc[t] = "Writing"
    /\ catalog' = [catalog EXCEPT ![CurKey(t)] = CurInfo(t)]
    /\ partial' = NoKey
    /\ Goto(t, "Written")
    /\ UNCHANGED <<envVars, fs, lock, idx, result, cause, scanVars, storeErr1, rework,
                   gpc, dd, gal, lay>>

\* process_tree, line 129: drop(db_writable); then the next entry.
DropWritable(t) ==
    /\ pc[t] = "Written"
    /\ Release
    /\ Goto(t, "Walking")
    /\ UNCHANGED <<envVars, fs, catalog, partial, idx, result, cause, scanVars, storeErr1,
                   rework, gpc, dd, gal, lay>>

\* -------------------------------------------------------------------- scan
Finished(t) == pc[t] \in {"Skipped", "Done", "Failed"}

ScanReportOnFirstError ==
    /\ scanPc = "running"
    /\ \/ \A t \in Trees : Finished(t)
       \/ \E t \in Trees : result[t] = "Err"
    /\ reported' = {t \in Trees : result[t] = "Err"}
    /\ scanPc' = "reporting"
    /\ UNCHANGED <<envVars, fs, catalog, partial, lock, pc, idx, result, cause,
                   scanResult, run, catalog0, storeErr1, rework, gpc, dd, gal, lay>>

\* scan, lines 27-36: collect() has every process_tree result; each Err is printed.
ScanReport ==
    /\ scanPc = "running"
    /\ \A t \in Trees : Finished(t)
    /\ reported' = {t \in Trees : result[t] = "Err"}
    /\ scanPc' = "reporting"
    /\ UNCHANGED <<envVars, fs, catalog, partial, lock, pc, idx, result, cause,
                   scanResult, run, catalog0, storeErr1, rework, gpc, dd, gal, lay>>

ScanResultPropagate(errs) == IF errs = {} THEN "Ok" ELSE "Err"

\* scan, line 42: Ok(()) whatever was reported.
ScanResult(errs) == "Ok"

ScanReturn ==
    /\ scanPc = "reporting"
    /\ scanResult' = ScanResult(reported)
    /\ scanPc' = "returned"
    /\ UNCHANGED <<envVars, fs, catalog, partial, lock, pc, idx, result, cause,
                   reported, run, catalog0, storeErr1, rework, gpc, dd, gal, lay>>

\* scan is called again with the same configuration, on the same file system.
Rescan ==
    /\ scanPc = "returned"
    /\ run < maxRuns
    /\ run' = run + 1
    /\ catalog0' = catalog
    /\ scanPc' = "running"
    /\ reported' = {}
    /\ scanResult' = "none"
    /\ pc' = [t \in Trees |-> "Pending"]
    /\ idx' = [t \in Trees |-> 0]
    /\ result' = [t \in Trees |-> "none"]
    /\ cause' = [t \in Trees |-> "none"]
    /\ UNCHANGED <<envVars, fs, catalog, partial, lock, storeErr1, rework, gpc, dd, gal, lay>>

TreeStep(t) ==
    \/ StartTree(t)
    \/ ResolveMarker(t)
    \/ WalkNext(t)
    \/ LockExists(t)
    \/ Exists(t)
    \/ SkipPresent(t)
    \/ DropReadable(t)
    \/ Hash(t)
    \/ Process(t)
    \/ LockUpsert(t)
    \/ Upsert(t)
    \/ UpsertCommit(t)
    \/ DropWritable(t)

Next ==
    \/ \E t \in Trees : TreeStep(t)
    \/ ScanReport
    \/ ScanReturn

Spec == Init /\ [][Next]_vars

\* One scan, recording what each entry turned out to be.
InitTrack == InitScan(1, TRUE, "off", {EmptyCatalog})
SpecTrack == InitTrack /\ [][Next]_vars

\* Two scans of the same trees on an unchanged file system.
InitRescan == InitScan(2, TRUE, "off", {EmptyCatalog})
NextRescan == Next \/ Rescan
SpecRescan == InitRescan /\ [][NextRescan]_vars

\* One scan under fair scheduling: rayon runs every worker that can take a
\* step, and scan goes on once collect() has every result.
FairScan ==
    /\ \A t \in Trees : WF_vars(TreeStep(t))
    /\ WF_vars(ScanReport)
    /\ WF_vars(ScanReturn)
SpecLive == Init /\ [][Next]_vars /\ FairScan

\* ---------------------------------------------------------------- gallery
\* Gallery::layout, line 145: let db = self.db.lock().unwrap()
LayoutLock ==
    /\ gpc = "idle"
    /\ Acquire(Gallery)
    /\ gpc' = "layout"
    /\ UNCHANGED <<envVars, fs, catalog, partial, pc, idx, result, cause, scanVars,
                   storeErr1, rework, dd, gal, lay>>

\* Gallery::layout, lines 146-149: SELECT COUNT(*) FROM file; drop(db).
LayoutCount ==
    /\ gpc = "layout"
    /\ Release
    /\ gpc' = "idle"
    /\ UNCHANGED <<envVars, fs, catalog, partial, pc, idx, result, cause, scanVars,
                   storeErr1, rework, dd, gal, lay>>

\* Gallery::draw, line 190: let db = self.db.lock().unwrap()
DrawLock ==
    /\ gpc = "idle"
    /\ Acquire(Gallery)
    /\ gpc' = "draw"
    /\ UNCHANGED <<envVars, fs, catalog, partial, pc, idx, result, cause, scanVars,
                   storeErr1, rework, dd, gal, lay>>

DrawQueriesKeepLock ==
    /\ gpc = "draw"
    /\ gpc' = "idle"
    /\ UNCHANGED <<envVars, fs, catalog, partial, lock, pc, idx, result, cause, scanVars,
                   storeErr1, rework, dd, gal, lay>>

\* Gallery::draw, lines 194-346: the page of thumbnails and the locations of
\* the hovered tile are queried and drawn; the guard is dropped when draw
\* returns.
DrawQueries ==
    /\ gpc = "draw"
    /\ Release
    /\ gpc' = "idle"
    /\ UNCHANGED <<envVars, fs, catalog, partial, pc, idx, result, cause, scanVars,
                   storeErr1, rework, dd, gal, lay>>

GalleryStep ==
    \/ LayoutLock
    \/ LayoutCount
    \/ DrawLock
    \/ DrawQueries

\* One scan while the gallery widget is laid out and drawn.
InitGallery == InitScan(1, FALSE, "idle", {EmptyCatalog})
NextGallery == Next \/ GalleryStep
SpecGallery == InitGallery /\ [][NextGallery]_vars

\* One scan beside the gallery under fair scheduling: a layout or draw call
\* that began runs to its end (whether another call follows is up to the
\* user interface), and a worker blocked in lock() gets the mutex when it is
\* free again and again.
FairGallery ==
    /\ FairScan
    /\ \A t \in Trees : SF_vars(LockExists(t)) /\ SF_vars(LockUpsert(t))
    /\ WF_vars(LayoutCount)
    /\ WF_vars(DrawQueries)
SpecGalleryLive == InitGallery /\ [][NextGallery]_vars /\ FairGallery

\* --------------------------------------------- try_deduce_date on its own
BoundedSeq(S, n) == UNION {[1..k -> S] : k \in 0..n}

DateInputs ==
    [exif : Exifs \cup {NoExif}, relative_path : Paths,
     date_paths : BoundedSeq(DatePathSet, MaxDatePaths)]

\* No scan is running.
NoScan ==
    /\ markerFile = [t \in Trees |-> [kind |-> "absent", id |-> "none"]]
    /\ nfiles = [t \in Trees |-> 0]
    /\ track = FALSE
    /\ fs = [t \in Trees |-> <<>>]
    /\ datePaths = [m \in MarkerIds |-> <<>>]
    /\ catalog = EmptyCatalog
    /\ partial = NoKey
    /\ lock = Free
    /\ pc = [t \in Trees |-> "Pending"]
    /\ idx = [t \in Trees |-> 0]
    /\ result = [t \in Trees |-> "none"]
    /\ cause = [t \in Trees |-> "none"]
    /\ scanPc = "off"
    /\ reported = {}
    /\ scanResult = "none"
    /\ run = 1
    /\ maxRuns = 1
    /\ catalog0 = catalog
    /\ storeErr1 = FALSE
    /\ rework = {}
    /\ gpc = "off"

InitDate ==
    /\ NoScan
    /\ \E i \in DateInputs : dd = [in |-> i, done |-> FALSE, out |-> None]
    /\ gal = NoGallery
    /\ lay = NoLayout

DeduceDate ==
    /\ ~dd.done
    /\ dd' = [dd EXCEPT !.done = TRUE,
                        !.out = try_deduce_date(dd.in.exif, dd.in.relative_path,
                                                dd.in.date_paths)]
    /\ UNCHANGED <<envVars, fs, catalog, partial, lock, pc, idx, result, cause, scanVars,
                   storeErr1, rework, gpc, gal, lay>>

NextDate == DeduceDate
SpecDate == InitDate /\ [][NextDate]_vars

\* ------------------------------------------------- Gallery::on_event alone
MouseEvents ==
    {"LeftPressed", "RightPressed", "CursorMoved", "LeftReleased", "RightReleased",
     "WheelScrolled"}
\* Cursor coordinates: left of the widget, and in the first, second and third
\* column or row of tiles.
Coords == {-1, 0, 250, 475}
Points == Coords \X Coords
\* layout.bounds().width: room for two columns, and for three.
LayoutWidths == {475, 700}

\* on_event, lines 361-367: ButtonPressed(Button::Left)
on_press(g, i) ==
    IF i # None THEN [g EXCEPT !.selection = single(i[1]), !.selecting = TRUE] ELSE g

on_move_SetsInitial(g, i) ==
    IF g.selecting /\ i # None THEN [g EXCEPT !.selection = single(i[1])] ELSE g

\* on_event, lines 368-376: CursorMoved
on_move(g, i) ==
    IF g.selecting /\ i # None THEN [g EXCEPT !.selection.last = i[1]] ELSE g

\* on_event, lines 377-383: ButtonReleased(Button::Left)
on_release(g) ==
    [g EXCEPT !.selecting = FALSE,
              !.published = IF g.on_select THEN <<g.selection>> ELSE None]

\* on_event: the widget after the event, with what the Shell got published
\* and the event::Status returned.
on_event(g, event, width, cursor_position) ==
    LET i == xy_to_offset(width, cursor_position)
        h == [g EXCEPT !.published = None, !.event = event, !.hit = i, !.status = "Captured"]
    IN CASE event = "LeftPressed"  -> on_press(h, i)
         [] event = "CursorMoved"  -> on_move(h, i)
         [] event = "LeftReleased" -> on_release(h)
         [] OTHER                  -> [h EXCEPT !.status = "Ignored"]

\* The widget is built with any selection (with_selection) and with or
\* without an on_select handler; its InternalState starts not selecting.
InitSelect ==
    /\ NoScan
    /\ dd = NoDeduction
    /\ lay = NoLayout
    /\ \E a, b \in {0, 1} : \E f \in BOOLEAN :
        gal = [NoGallery EXCEPT !.selection = [initial |-> a, last |-> b], !.on_select = f]

OnEvent ==
    /\ \E e \in MouseEvents : \E w \in LayoutWidths : \E p \in Points :
        gal' = on_event(gal, e, w, p)
    /\ UNCHANGED <<envVars, fs, catalog, partial, lock, pc, idx, result, cause, scanVars,
                   storeErr1, rework, gpc, dd, lay>>

NextSelect == OnEvent
SpecSelect == InitSelect /\ [][NextSelect]_vars

\* -------------------------------------- Gallery::layout's rows, on its own
\* f32::INFINITY as a width: more than any u32 number of columns needs.
Infinity == (UMax + 1) * (tile_w + spacing) + spacing
\* limits.max().width: narrower than the spacing, narrower than one tile
\* with its spacing, room for one, two, three and four columns, unbounded.
MaxWidths == {0, 24, 100, 249, 250, 474, 475, 700, 925, Infinity}
Builds == {"debug", "release"}

\* Gallery::layout, lines 153-154: rows = (n_files + columns - 1) / columns
\* in u32. An overflowing + or - panics in a debug build and wraps in a
\* release build; a division by zero panics in both.
layout_rows(n_files, cols, build) ==
    LET sum == n_files + cols
        wrapped == sum % (UMax + 1)
        less1 == (wrapped - 1) % (UMax + 1)
        overflows == sum > UMax \/ wrapped = 0
    IN  IF overflows /\ build = "debug"
        THEN [outcome |-> "panic: arithmetic overflow", rows |-> 0]
        ELSE IF cols = 0
        THEN [outcome |-> "panic: divide by zero", rows |-> 0]
        ELSE [outcome |-> "ok", rows |-> less1 \div cols]

InitLayout ==
    /\ NoScan
    /\ dd = NoDeduction
    /\ gal = NoGallery
    /\ \E w \in MaxWidths : \E n \in 0..MaxCount :
        lay = [NoLayout EXCEPT !.in = [width |-> w, n_files |-> n], !.done = FALSE]

\* Gallery::layout, lines 151-154.
LayoutRows ==
    /\ ~lay.done
    /\ \E build \in Builds :
        LET cols == columns(lay.in.width)
            r == layout_rows(lay.in.n_files, cols, build)
        IN lay' = [lay EXCEPT !.done = TRUE, !.columns = cols, !.rows = r.rows,
                              !.outcome = r.outcome]
    /\ UNCHANGED <<envVars, fs, catalog, partial, lock, pc, idx, result, cause, scanVars,
                   storeErr1, rework, gpc, dd, gal>>

NextLayout == LayoutRows
SpecLayout == InitLayout /\ [][NextLayout]_vars

\* ================================================================= properties
MarkerOk(t) == try_from(markerFile[t]).tag = "Ok"
MarkerOther(t) == try_from(markerFile[t]).tag = "Other"
UniqueMarker(t) == \A u \in Trees \ {t} : MarkerOk(u) => MarkerOf(u) # MarkerOf(t)
DistinctMarkers == \A t \in Trees : MarkerOk(t) => UniqueMarker(t)
HoldsGuard(t) == pc[t] \in {"Exists", "Present", "Absent", "Upsert", "Writing", "Written"}
GalleryInQuery == gpc \in {"layout", "draw"}
NewEntries(t) ==
    Cardinality({i \in 1..nfiles[t] : KeyOf(t, i) \in Known(catalog) \ Known(catalog0)})

C2_FileErrorSkipsOnlyThatFile ==
    \A t \in Trees :
        (Finished(t) /\ MarkerOk(t) /\ cause[t] \notin {"store", "thumb"})
            => (pc[t] = "Done" /\ idx[t] = nfiles[t])

OneCorruptRestFine(t) ==
    /\ Len(fs[t]) = nfiles[t]
    /\ \A i \in 1..nfiles[t] : fs[t][i] \in {"ok", "corrupt"}
    /\ Cardinality({i \in 1..nfiles[t] : fs[t][i] = "corrupt"}) = 1

\* C3: a file whose decoding fails is never upserted and the walk goes on
\* after it; a tree of N files not yet cataloged, exactly one of which fails
\* to decode, has N-1 new entries when it is Done.
C3_CorruptImageSkipped ==
    \A t \in Trees :
        /\ pc[t] \in {"LockUpsert", "Upsert", "Writing", "Written"} => fs[t][idx[t]] = "ok"
        /\ (idx[t] > 0 /\ fs[t][idx[t]] = "corrupt")
                => pc[t] \in {"Walking", "Done"}
        /\ (pc[t] = "Done" /\ UniqueMarker(t) /\ OneCorruptRestFine(t)
                /\ \A i \in 1..nfiles[t] : KeyOf(t, i) \notin Known(catalog0))
                => /\ NewEntries(t) = nfiles[t] - 1
                   /\ \A i \in 1..nfiles[t] :
                        fs[t][i] = "corrupt" => KeyOf(t, i) \notin Known(catalog)

C3_Witness ==
    \E t \in Trees :
        /\ pc[t] = "Done"
        /\ nfiles[t] >= 2
        /\ UniqueMarker(t)
        /\ OneCorruptRestFine(t)
        /\ fs[t][1] = "corrupt"
        /\ NewEntries(t) = nfiles[t] - 1

\* C4: whatever markers are missing or malformed and whatever files are
\* unreadable or undecodable, scan reports every failed tree and returns Ok.
C4_ScanNeverFails ==
    (scanPc = "returned" /\ \A t \in Trees : cause[t] # "store")
        => /\ scanResult = "Ok"
           /\ reported = {t \in Trees : result[t] = "Err"}
           /\ \A t \in Trees : (MarkerOther(t) \/ cause[t] = "read") => t \in reported

C4_Witness ==
    /\ scanPc = "returned"
    /\ scanResult = "Ok"
    /\ \E t, u \in Trees : cause[t] = "read" /\ markerFile[u].kind = "malformed"

\* C5: a tree whose marker file does not exist resolves to NotFound, goes
\* from Resolving to Skipped without walking or taking the catalog lock,
\* returns Ok and is not reported.
C5_MissingMarkerSkipped ==
    \A t \in Trees :
        markerFile[t].kind = "absent"
            => /\ try_from(markerFile[t]).tag = "NotFound"
               /\ pc[t] \in {"Pending", "Resolving", "Skipped"}
               /\ idx[t] = 0
               /\ lock # t
               /\ result[t] # "Err"
               /\ pc[t] = "Skipped" => result[t] = "Ok"
               /\ t \notin reported

C5_Witness ==
    /\ scanPc = "returned"
    /\ scanResult = "Ok"
    /\ \E t \in Trees : markerFile[t].kind = "absent" /\ pc[t] = "Skipped"

\* C6: a tree whose marker resolution fails with Other is reported by scan,
\* never walks or takes the lock, and every other tree has run to its own
\* end when scan reports: Skipped, Done with its whole walk taken, or failed
\* on an error of its own.
C6_TreeFailureIsolated ==
    \A a \in Trees :
        MarkerOther(a)
            => /\ lock # a
               /\ idx[a] = 0
               /\ scanPc \in {"reporting", "returned"}
                    => /\ a \in reported
                       /\ \A b \in Trees \ {a} :
                            /\ Finished(b)
                            /\ pc[b] = "Done" => idx[b] = nfiles[b]
                            /\ pc[b] = "Failed"
                                 => cause[b] \in {"marker", "read", "thumb", "store"}

C6_Witness ==
    /\ scanPc = "returned"
    /\ \E a, b \in Trees :
        /\ MarkerOther(a)
        /\ a \in reported
        /\ pc[b] = "Done"
        /\ nfiles[b] >= 1
        /\ KeyOf(b, nfiles[b]) \in Known(catalog) \ Known(catalog0)

\* C7: when exists or upsert fails, scan does not return success.
C7_StoreFailureIsFatal ==
    (scanPc = "returned" /\ \E t \in Trees : cause[t] = "store") => scanResult # "Ok"

\* C8: a worker holds the catalog lock only from its lock() to the end of
\* that exists check or upsert: never while it walks and reads, never while
\* it hashes, decodes and makes the thumbnail, and never after process_tree
\* returned.
C8_LockScope ==
    \A t \in Trees :
        /\ lock = t => HoldsGuard(t)
        /\ pc[t] \in {"Pending", "Resolving", "Walking", "LockExists", "Hashing", "Processing",
                      "LockUpsert", "Skipped", "Done", "Failed"} => lock # t

C8_Witness ==
    \E t, u \in Trees :
        /\ t # u
        /\ pc[t] = "Processing"
        /\ pc[u] = "Writing"
        /\ lock = u

\* C9: at most one party, scan worker or gallery, is inside a catalog
\* operation, it is the holder of the lock, and while a record is half
\* written nobody is in an exists check or a read query.
C9_MutualExclusion ==
    /\ Cardinality({t \in Trees : HoldsGuard(t)}) + (IF GalleryInQuery THEN 1 ELSE 0) <= 1
    /\ \A t \in Trees : HoldsGuard(t) => lock = t
    /\ GalleryInQuery => lock = Gallery
    /\ partial # NoKey
        => /\ ~GalleryInQuery
           /\ \A t \in Trees : pc[t] \notin {"Exists", "Present", "Absent"}

C9_Witness ==
    \E t, u \in Trees :
        /\ gpc = "draw"
        /\ pc[t] = "LockUpsert"
        /\ pc[u] = "LockExists"

\* C10: a parseable original-capture date is the inferred date, whatever
\* the generic date-time field and the date-path patterns hold.
C10_OriginalCaptureDateWins ==
    (dd.done /\ to_naive_opt(dd.in.exif["DateTimeOriginal"]) # None)
        => dd.out = to_naive_opt(dd.in.exif["DateTimeOriginal"])

\* try_deduce_date, lines 246-251: what the templates of the matching date
\* paths expand to, in configured order.
RECURSIVE expansions(_, _)
expansions(relative_path, date_paths) ==
    IF date_paths = <<>> THEN <<>>
    ELSE (IF relative_path \in Head(date_paths).path
          THEN <<Head(date_paths).date>> ELSE <<>>)
            \o expansions(relative_path, Tail(date_paths))

\* C11: for a file with no embedded metadata date, when the first date-path
\* pattern that matches the relative path expands to a valid date string,
\* try_deduce_date returns that date, parsed.
C11_PathPatternDateUsed ==
    LET found == expansions(dd.in.relative_path, dd.in.date_paths)
    IN (/\ dd.done
        /\ dd.in.exif = NoExif
        /\ found # <<>>
        /\ to_naive_opt(Head(found)) # None)
            => dd.out = to_naive_opt(Head(found))

AllDecode(t) == Len(fs[t]) = nfiles[t] /\ \A i \in 1..nfiles[t] : fs[t][i] = "ok"

\* C12: the already-cataloged check is keyed on (marker, relative_path): a
\* file is skipped only when its own pair is cataloged, and a tree whose
\* files all decode, byte-identical or not, ends with one record per relative
\* path, each carrying the hash of its content.
C12_DedupByIdentityNotContent ==
    \A t \in Trees :
        /\ pc[t] = "Present" => CurKey(t) \in Known(catalog)
        /\ (pc[t] = "Done" /\ AllDecode(t))
                => \A i \in 1..nfiles[t] :
                        /\ KeyOf(t, i) \in Known(catalog)
                        /\ UniqueMarker(t) => catalog[KeyOf(t, i)].hash = Sha1(ContentAt(t, i))

C12_Witness ==
    \E t \in Trees :
        /\ pc[t] = "Done"
        /\ AllDecode(t)
        /\ nfiles[t] >= 2
        /\ ContentAt(t, 1) = ContentAt(t, 2)
        /\ {KeyOf(t, 1), KeyOf(t, 2)} \subseteq Known(catalog) \ Known(catalog0)
        /\ catalog[KeyOf(t, 1)].hash = catalog[KeyOf(t, 2)].hash

\* C13: under fair scheduling of the workers every tree ends Skipped, Done
\* or Failed, a worker waiting for the catalog lock gets it, and scan returns
\* with every tree finished.
C13_Termination ==
    /\ \A t \in Trees : <>Finished(t)
    /\ \A t \in Trees : (pc[t] \in {"LockExists", "LockUpsert"}) ~> (lock = t)
    /\ <>(scanPc = "returned" /\ \A t \in Trees : Finished(t))

C13_Witness ==
    /\ scanPc = "returned"
    /\ \E t, u \in Trees :
        /\ t # u
        /\ pc[t] = "Done" /\ nfiles[t] >= 1
        /\ pc[u] = "Done" /\ nfiles[u] >= 1
        /\ KeyOf(t, 1) \in Known(catalog) \ Known(catalog0)
        /\ KeyOf(u, 1) \in Known(catalog)

\* C14: once a (marker, relative_path) pair is cataloged, a later scan does
\* not read that file's bytes (a worker is past fs::read for a file only when
\* the scan began without its pair), does not decode it, and its record stays
\* as it was created.
C14_KnownFilesNotReadAgain ==
    /\ \A t \in Trees :
        pc[t] \in {"LockExists", "Exists", "Present"} => CurKey(t) \notin Known(catalog0)
    /\ rework = {}
    /\ \A k \in Known(catalog0) : catalog[k] = catalog0[k]

\* C15: within one scan no (marker, relative_path) pair is upserted by two
\* different workers: a worker writing a record never finds that another
\* worker cataloged the same pair during this scan.
C15_SingleWriterPerLocation ==
    \A t \in Trees :
        pc[t] = "Writing" => CurKey(t) \notin Known(catalog) \ Known(catalog0)

Complete(info) == info.hash # NoInfo.hash /\ info.thumb # NoInfo.thumb

\* C16: no step of a scan takes a (marker, relative_path) pair out of the
\* catalog; the catalog holds complete records only, whatever state the scan
\* is stopped in; and an upsert that completed has its pair in the catalog.
C16_ScanOnlyAdds ==
    /\ [](\A k \in Known(catalog) : Complete(catalog[k]))
    /\ [](\A t \in Trees : pc[t] = "Written" => CurKey(t) \in Known(catalog))
    /\ [][Known(catalog) \subseteq Known(catalog')]_vars

C16_Witness ==
    \E t \in Trees :
        /\ pc[t] = "Failed"
        /\ cause[t] \in {"read", "thumb", "store"}
        /\ idx[t] >= 2
        /\ KeyOf(t, 1) \in Known(catalog) \ Known(catalog0)
        /\ Complete(catalog[KeyOf(t, 1)])

StepOrder(t) ==
    /\ pc'[t] = "LockExists" => (pc[t] = "Walking" /\ idx'[t] = idx[t] + 1)
    /\ pc'[t] = "Exists" => pc[t] = "LockExists"
    /\ pc'[t] = "Present" => (pc[t] = "Exists" /\ db_exists(catalog, CurKey(t)))
    /\ pc'[t] = "Absent" => (pc[t] = "Exists" /\ ~db_exists(catalog, CurKey(t)))
    /\ pc'[t] = "Hashing" => pc[t] = "Absent"
    /\ pc'[t] = "Processing" => pc[t] = "Hashing"
    /\ pc'[t] = "LockUpsert" => (pc[t] = "Processing" /\ fs'[t][idx[t]] = "ok")
    /\ pc'[t] = "Upsert" => pc[t] = "LockUpsert"
    /\ pc'[t] = "Writing" => pc[t] = "Upsert"
    /\ pc'[t] = "Written" => (pc[t] = "Writing" /\ catalog'[CurKey(t)] = CurInfo(t))
    /\ pc[t] = "Present" => pc'[t] = "Walking"
    /\ pc[t] # "Walking" => idx'[t] = idx[t]

\* C18: for each file a worker reads the bytes, then checks exists, then
\* either skips it (present) or deduces the date, decodes and upserts: an
\* upsert follows an exists check that returned false and a successful
\* decode of the same file, a present file is never upserted, and a record
\* changes only in the upsert of its own pair.
C18_StepOrder ==
    [][/\ \A t \in Trees : pc'[t] # pc[t] => StepOrder(t)
       /\ \A k \in Keys :
            catalog'[k] # catalog[k] => \E t \in Trees : pc[t] = "Writing" /\ CurKey(t) = k]_vars

C18_Witness ==
    \E t, u \in Trees :
        /\ pc[t] = "Written"
        /\ fs[t][idx[t]] = "ok"
        /\ pc[u] = "Walking"
        /\ idx[u] >= 1
        /\ fs[u][idx[u]] = "readable"
        /\ CurKey(u) \in Known(catalog)
        /\ CurKey(u) # CurKey(t)

OnlyWalkErrors(t) ==
    \A i \in 1..Len(fs[t]) : fs[t][i] \in {"walkerr", "readable", "ok"}

\* C19: an entry for which the walker yields an error is skipped alone: the
\* worker takes no lock and makes no catalog operation for it and walks on;
\* a tree whose only trouble is such entries ends Done with its whole walk
\* taken and every file that decodes cataloged.
C19_WalkErrorsPerItem ==
    \A t \in Trees :
        /\ (idx[t] > 0 /\ fs[t][idx[t]] = "walkerr")
                => (pc[t] \in {"Walking", "Done"} /\ lock # t)
        /\ (Finished(t) /\ MarkerOk(t) /\ OnlyWalkErrors(t) /\ cause[t] # "store")
                => /\ pc[t] = "Done"
                   /\ idx[t] = nfiles[t]
                   /\ \A i \in 1..nfiles[t] :
                        /\ fs[t][i] = "ok" => KeyOf(t, i) \in Known(catalog)
                        /\ (fs[t][i] = "walkerr" /\ UniqueMarker(t))
                                => KeyOf(t, i) \notin Known(catalog)

C19_Witness ==
    \E t \in Trees :
        /\ pc[t] = "Done"
        /\ nfiles[t] >= 3
        /\ fs[t][1] = "ok"
        /\ fs[t][2] = "walkerr"
        /\ fs[t][3] = "ok"
        /\ KeyOf(t, 3) \in Known(catalog) \ Known(catalog0)

\* C20: a worker whose exists or upsert failed has returned the error and
\* does not hold the lock; it takes no further step: no later read, exists,
\* decode or upsert; the workers of the other trees run to their own end.
C20_StoreErrorStopsWorker ==
    /\ [](\A t \in Trees :
            cause[t] = "store"
                => /\ pc[t] = "Failed" /\ result[t] = "Err" /\ lock # t
                   /\ scanPc \in {"reporting", "returned"}
                        => \A u \in Trees \ {t} :
                                Finished(u) /\ (pc[u] = "Done" => idx[u] = nfiles[u]))
    /\ [][\A t \in Trees :
            cause[t] = "store"
                => /\ pc'[t] = pc[t] /\ idx'[t] = idx[t] /\ lock' # t
                   /\ catalog' # catalog => \E u \in Trees \ {t} : pc[u] = "Writing"]_vars

C20_Witness ==
    /\ scanPc = "returned"
    /\ \E t, u \in Trees :
        /\ cause[t] = "store"
        /\ idx[t] < nfiles[t]
        /\ cause[u] = "none"
        /\ pc[u] = "Done"
        /\ nfiles[u] >= 1
        /\ KeyOf(u, nfiles[u]) \in Known(catalog) \ Known(catalog0)

\* C21: the hash of a file whose decoding fails is never computed: a worker
\* that has hashed the current file does not then find that it cannot be
\* decoded.
C21_NoHashBeforeFailedDecode ==
    [][\A t \in Trees :
        (pc[t] = "Processing" /\ pc'[t] # "Processing") => fs'[t][idx[t]] # "corrupt"]_vars

Min2(a, b) == IF a <= b THEN a ELSE b
Max2(a, b) == IF a <= b THEN b ELSE a

\* What one on_event call did to the widget, apart from the left release's
\* publishing: g is the widget before, h the widget after.
SelectionStep(g, h) ==
    /\ (h.event = "LeftPressed" /\ h.hit # None)
            => (h.selection = single(h.hit[1]) /\ h.selecting)
    /\ h.event = "CursorMoved"
            => /\ h.selection.initial = g.selection.initial
               /\ h.selecting = g.selecting
               /\ h.selection.last # g.selection.last => g.selecting
    /\ h.event = "LeftReleased" => (~h.selecting /\ h.selection = g.selection)
    /\ h.event \notin {"LeftPressed", "CursorMoved", "LeftReleased"}
            => (h.selection = g.selection /\ h.selecting = g.selecting /\ h.published = None)
    /\ (h.selecting /\ ~g.selecting) => (h.event = "LeftPressed" /\ h.hit # None)
    /\ (~h.selecting /\ g.selecting) => h.event = "LeftReleased"
    /\ h.on_select = g.on_select

RangeIsMinToMax ==
    range(gal.selection)
        = Min2(gal.selection.initial, gal.selection.last)
            ..Max2(gal.selection.initial, gal.selection.last)

\* C22 as stated: a left press on a valid position selects the pressed tile
\* alone and starts selecting; a cursor move changes selection.last only,
\* and only while selecting; a left release ends selecting and publishes the
\* current selection; any other event changes neither; range() runs from
\* the smaller of initial and last to the larger.
C22_SelectionStateMachine ==
    /\ []RangeIsMinToMax
    /\ [][/\ SelectionStep(gal, gal')
          /\ gal'.event = "LeftReleased" => gal'.published = <<gal'.selection>>]_vars

\* C22 amended: as stated, except that a left release publishes the current
\* selection when the widget has an on_select handler, and publishes nothing
\* when it has none.
C22_SelectionStateMachineAmended ==
    /\ []RangeIsMinToMax
    /\ [][/\ SelectionStep(gal, gal')
          /\ gal'.event = "LeftReleased"
                => gal'.published = (IF gal.on_select THEN <<gal'.selection>> ELSE None)]_vars

C22_Witness ==
    /\ gal.event = "LeftReleased"
    /\ gal.on_select
    /\ gal.published = <<gal.selection>>
    /\ ~gal.selecting
    /\ gal.selection.initial > gal.selection.last + 1
    /\ range(gal.selection) = gal.selection.last..gal.selection.initial

\* The ceiling of n / d.
Ceiling(n, d) == (n + d - 1) \div d

\* C23: for every layout width and every catalog size the column count is at
\* least 1, n_files + columns - 1 neither underflows nor overflows, and rows
\* is the ceiling of n_files / columns.
C23_LayoutRowsWellDefined ==
    (lay.done /\ lay.outcome # "none")
        => /\ lay.columns >= 1
           /\ lay.outcome = "ok"
           /\ lay.in.n_files + lay.columns - 1 \in 0..UMax
           /\ lay.rows = Ceiling(lay.in.n_files, lay.columns)
====
